---- MODULE Spec2Model ----
(***************************************************************************)
(* The two brownie scripts of escrowNFT-Decade, scripts/main.py and        *)
(* scripts/simulation.py, run one after the other against a chain that     *)
(* holds the escrowNFT and faucetNFT contracts.  The scripts are modelled  *)
(* statement by statement from the source.  The two contracts are not part *)
(* of the source files; their entry points are modelled from the written   *)
(* description of the escrow record and the faucet.                        *)
(*                                                                         *)
(* Currency amounts are counted in units of 10^17 wei, so that             *)
(* web3.toWei("0.5", "ether") = 5 * 10^17 wei is the number 5.             *)
(***************************************************************************)
EXTENDS Integers, Sequences, FiniteSets, TLC

\* ------------------------------------------------------------------ bounds
\* Script runs started one after the other on the same chain.
MaxRuns == 2
\* Blocks the chain may add beyond the confirmations a wait asks for.
MaxExtraBlocks == 0
\* Calls made by arbitrary accounts in ContractSpec.
MaxCalls == 5
\* Currency every account starts with (units of 10^17 wei).
InitFunds == 10

\* ---------------------------------------------------------- program constants
\* escrowNFT.deploy(2, ...)
EscrowConfig == 2
\* every .wait(3)
Confs == 3
\* count=3 in getAccount, count=2 in simulation.main
MainCount == 3
SimCount == 2
\* token unit 0 in approve(escrow.address, 0, ...) and createEscrow(txId, 0, ...)
ApproveUnit == 0
CreateUnit == 0
\* Mutant of PayEther: "0.4" attached to payEscrow.
PayEther_typo == <<0, 4>>

\* The decimal string "0.5" of web3.toWei("0.5", "ether"), as <<whole, tenths>>:
\* once in createEscrow and once in payEscrow.
CreateEther == <<0, 5>>
PayEther == <<0, 5>>

\* ------------------------------------------------------------------ values
None == <<"none", 0>>
Acct(i) == <<"account", i>>
EscrowAddr(k) == <<"escrowNFT", k>>
FaucetAddr(k) == <<"faucetNFT", k>>
NoTx == <<>>

\* accounts.from_mnemonic(mnemonic, count=n): the first n accounts of the phrase,
\* in order.
from_mnemonic(n) == [i \in 0..(n - 1) |-> Acct(i)]

\* web3.toWei(d, "ether") for the decimal d = <<whole, tenths>>, in units of 10^17 wei.
toWei(d) == d[1] * 10 + d[2]

\* web3.keccak(text=t)
keccak(t) == <<"keccak", t>>

AllAccounts == {Acct(i) : i \in 0..(MainCount - 1)}

\* ------------------------------------------------------------- the contracts
\* The state the entry points read and write: w.e is the escrow contract
\* instance, w.f the faucet contract instance, w.wei the accounts' currency.
\*   w.e.records : the escrow records, each keyed by its id
\*   w.e.events  : the successful createEscrow and payEscrow calls, in order
\*   w.e.held    : currency held by the escrow contract
\*   w.f.owner   : owner of each minted token unit, units 0 .. nextId-1
\*   w.f.approved: the address approved to move each unit, or None

NewEscrow(config) ==
    [config |-> config, records |-> {}, events |-> <<>>, held |-> 0]

NewFaucet == [owner |-> <<>>, approved |-> <<>>, nextId |-> 0]

Units(w) == 0..(w.f.nextId - 1)

\* Token units are kept in sequences indexed from 1: unit u is entry u + 1.
ownerOf(w, u) == IF u \in Units(w) THEN w.f.owner[u + 1] ELSE None

getApproved(w, u) == IF u \in Units(w) THEN w.f.approved[u + 1] ELSE None

balanceOf(w, a) == Cardinality({u \in Units(w) : ownerOf(w, u) = a})

Reverted(w) == [ok |-> FALSE, w |-> w]

Applied(w) == [ok |-> TRUE, w |-> w]

\* faucet(): mints the next token unit to the caller.
faucet_faucet(w, sender) ==
    Applied([w EXCEPT !.f.owner = Append(@, sender),
                      !.f.approved = Append(@, None),
                      !.f.nextId = @ + 1])

\* approve(to, unit): only the unit's owner may approve.
faucet_approve(w, sender, to, unit) ==
    IF unit \in Units(w) /\ ownerOf(w, unit) = sender /\ to # sender
    THEN Applied([w EXCEPT !.f.approved[unit + 1] = to])
    ELSE Reverted(w)

\* generateTxId(seller, buyer, token, salt): a hash of its four inputs, never
\* equal for different inputs.
escrow_generateTxId(s, b, token, salt) == <<s, b, token, salt>>

Record(w, id) == {r \in w.e.records : r.id = id}

StatusOf(w, id) ==
    IF Record(w, id) = {} THEN "absent" ELSE (CHOOSE r \in Record(w, id) : TRUE).status

\* createEscrow(id, unit, price, token, buyer): the seller opens a pending record;
\* token is the address of the token contract, fAddr the address of the faucet
\* instance, eAddr the address of this escrow instance.  The unit moves into the
\* escrow contract's custody.
escrow_createEscrow(w, eAddr, fAddr, sender, id, unit, price, token, buyer) ==
    IF /\ Record(w, id) = {}
       /\ token = fAddr
       /\ unit \in Units(w)
       /\ ownerOf(w, unit) = sender
       /\ getApproved(w, unit) = eAddr
    THEN Applied([w EXCEPT
            !.e.records = @ \cup {[id |-> id, unit |-> unit, price |-> price,
                                   token |-> token, buyer |-> buyer,
                                   seller |-> sender, status |-> "pending"]},
            !.e.events = Append(@, [fn |-> "createEscrow", id |-> id,
                                    from |-> sender, token |-> token]),
            !.f.owner[unit + 1] = eAddr,
            !.f.approved[unit + 1] = None])
    ELSE Reverted(w)

\* Mutant of escrow_payEscrow: an id without a record is not refused; the value is
\* taken.
escrow_payEscrow_noRecordCheck(w, eAddr, sender, id, value) ==
    IF w.wei[sender] < value THEN Reverted(w)
    ELSE IF Record(w, id) = {}
    THEN Applied([w EXCEPT !.e.held = @ + value, !.wei[sender] = @ - value])
    ELSE LET r == CHOOSE x \in Record(w, id) : TRUE IN
         IF r.status = "pending" /\ sender = r.buyer /\ value = r.price
         THEN Applied([w EXCEPT
                 !.e.records = (@ \ {r}) \cup {[r EXCEPT !.status = "paid"]},
                 !.e.events = Append(@, [fn |-> "payEscrow", id |-> id,
                                         from |-> sender, token |-> r.token]),
                 !.e.held = @ + value,
                 !.wei[sender] = @ - value,
                 !.f.owner[r.unit + 1] = r.buyer])
         ELSE Reverted(w)

\* Mutant of escrow_payEscrow: the payer is not compared with the record's buyer;
\* the unit goes to whoever pays.
escrow_payEscrow_anyPayer(w, eAddr, sender, id, value) ==
    IF /\ Record(w, id) # {}
       /\ w.wei[sender] >= value
    THEN LET r == CHOOSE x \in Record(w, id) : TRUE IN
         IF r.status = "pending" /\ value = r.price
         THEN Applied([w EXCEPT
                 !.e.records = (@ \ {r}) \cup {[r EXCEPT !.status = "paid"]},
                 !.e.events = Append(@, [fn |-> "payEscrow", id |-> id,
                                         from |-> sender, token |-> r.token]),
                 !.e.held = @ + value,
                 !.wei[sender] = @ - value,
                 !.f.owner[r.unit + 1] = sender])
         ELSE Reverted(w)
    ELSE Reverted(w)

\* payEscrow(id) with value attached: the named buyer pays a pending record with
\* the agreed price; the record becomes paid and the unit is released to the buyer.
escrow_payEscrow(w, eAddr, sender, id, value) ==
    IF /\ Record(w, id) # {}
       /\ w.wei[sender] >= value
    THEN LET r == CHOOSE x \in Record(w, id) : TRUE IN
         IF r.status = "pending" /\ sender = r.buyer /\ value = r.price
         THEN Applied([w EXCEPT
                 !.e.records = (@ \ {r}) \cup {[r EXCEPT !.status = "paid"]},
                 !.e.events = Append(@, [fn |-> "payEscrow", id |-> id,
                                         from |-> sender, token |-> r.token]),
                 !.e.held = @ + value,
                 !.wei[sender] = @ - value,
                 !.f.owner[r.unit + 1] = r.buyer])
         ELSE Reverted(w)
    ELSE Reverted(w)

\* ------------------------------------------------------------------- state
VARIABLES
    height,     \* number of the chain's latest block
    escrowNFT,  \* how many escrowNFT instances are deployed; [-1] is the last
    faucetNFT,  \* how many faucetNFT instances are deployed; [-1] is the last
    world,      \* state of escrowNFT[-1], of faucetNFT[-1] and the accounts' currency
    script,     \* the script being run: "none", "main" or "simulation"
    pc,         \* the statement the script is at
    status,     \* "idle", "running", "done" or "failed"
    failure,    \* why the run failed: "none", "fault", "revert" or "index"
    runs,       \* script runs started so far
    fresh,      \* whether the run works on contracts nobody has used yet
    account,    \* the accounts derived from the mnemonic
    escrow,     \* the escrow instance the script uses (its index), 0 before
    faucet,     \* the faucet instance the script uses (its index), 0 before
    txId,       \* the script's txId
    balance,    \* simulation.py's balance, -1 before
    stdout,     \* what the script has printed
    log,        \* the calls and waits the run has made, in order
    nCalls,     \* calls made by arbitrary accounts (ContractSpec)
    lastCall    \* the last of those calls

chainVars == <<height, escrowNFT, faucetNFT, world>>
procVars == <<script, pc, status, failure, runs, fresh>>
localVars == <<account, escrow, faucet, txId, balance>>
outVars == <<stdout, log>>
envVars == <<nCalls, lastCall>>
vars == <<chainVars, procVars, localVars, outVars, envVars>>

\* One entry of log.  kind: "local" (no chain access), "call" (a read-only call),
\* "tx" (a transaction), "wait" (a wait for n confirmations of transaction `of`).
Event(op, kind, from) ==
    [op |-> op, kind |-> kind, from |-> from, to |-> None, id |-> NoTx,
     unit |-> -1, price |-> -1, value |-> -1, token |-> None, buyer |-> None,
     seller |-> None, salt |-> NoTx, config |-> -1, block |-> 0, ok |-> TRUE,
     of |-> "", n |-> 0, at |-> 0]

NoCall == [fn |-> "none", from |-> None, id |-> NoTx, value |-> -1, ok |-> FALSE]

InitWorld ==
    [e |-> NewEscrow(0), f |-> NewFaucet, wei |-> [a \in AllAccounts |-> InitFunds]]

Init ==
    /\ height = 0
    /\ escrowNFT = 0
    /\ faucetNFT = 0
    /\ world = InitWorld
    /\ script = "none"
    /\ pc = "end"
    /\ status = "idle"
    /\ failure = "none"
    /\ runs = 0
    /\ fresh = FALSE
    /\ account = <<>>
    /\ escrow = 0
    /\ faucet = 0
    /\ txId = NoTx
    /\ balance = -1
    /\ stdout = <<>>
    /\ log = <<>>
    /\ nCalls = 0
    /\ lastCall = NoCall

\* ----------------------------------------------------------- script helpers
At(s, l) == script = s /\ status = "running" /\ pc = l

\* The script goes on to statement next; past its last statement it is done.
Goto(next) ==
    /\ pc' = next
    /\ status' = IF next = "end" THEN "done" ELSE status
    /\ UNCHANGED <<script, failure, runs, fresh>>

\* An unhandled exception: the script terminates where it is.
Raise(kind) ==
    /\ status' = "failed"
    /\ failure' = kind
    /\ UNCHANGED <<script, pc, runs, fresh>>

\* The block of the run's last transaction named op.
BlockOf(op) ==
    LET idx == {i \in 1..Len(log) : log[i].op = op /\ log[i].kind = "tx"} IN
    log[CHOOSE i \in idx : \A j \in idx : j <= i].block

\* Confirmations of a transaction mined in block b.
Confirmations(b) == height - b + 1

\* A transaction sent by the script: res is what the contract makes of it.  A
\* transaction that goes through is mined in the next block and the script goes on
\* to next; one that reverts raises.
Transact(ev, res, next) ==
    IF res.ok
    THEN /\ world' = res.w
         /\ height' = height + 1
         /\ log' = Append(log, [ev EXCEPT !.block = height + 1])
         /\ Goto(next)
    ELSE /\ UNCHANGED <<world, height>>
         /\ log' = Append(log, [ev EXCEPT !.ok = FALSE])
         /\ Raise("revert")

\* tx.wait(n): returns once transaction op has n confirmations.
Wait(op, n, next) ==
    /\ Confirmations(BlockOf(op)) >= n
    /\ log' = Append(log, [Event("wait", "wait", None) EXCEPT
                              !.of = op, !.n = n, !.at = height])
    /\ Goto(next)
    /\ UNCHANGED <<chainVars, localVars, stdout, envVars>>

\* ------------------------------------------------------------ scripts/main.py
\* developer, seller, buyer = getAccount()
developer == account[0]

seller == account[1]

\* Mutant of buyer: index 1 taken for the buyer.
buyer_indexOne == account[1]

buyer == account[2]

main_getAccount ==
    /\ At("main", "getAccount")
    /\ account' = from_mnemonic(MainCount)
    /\ log' = Append(log, Event("getAccount", "local", None))
    /\ Goto("deploy_escrow")
    /\ UNCHANGED <<chainVars, escrow, faucet, txId, balance, stdout, envVars>>

\* escrow = escrowNFT.deploy(2, {"from": owner})
main_deploy_escrow ==
    /\ At("main", "deploy_escrow")
    /\ escrowNFT' = escrowNFT + 1
    /\ escrow' = escrowNFT + 1
    /\ Transact([Event("deploy_escrow", "tx", developer) EXCEPT !.config = EscrowConfig],
                Applied([world EXCEPT !.e = NewEscrow(EscrowConfig)]),
                "wait_escrow")
    /\ UNCHANGED <<faucetNFT, account, faucet, txId, balance, stdout, envVars>>

\* escrow.tx.wait(3)
main_wait_escrow == At("main", "wait_escrow") /\ Wait("deploy_escrow", Confs, "deploy_faucet")

\* faucet = faucetNFT.deploy({"from": owner})
main_deploy_faucet ==
    /\ At("main", "deploy_faucet")
    /\ faucetNFT' = faucetNFT + 1
    /\ faucet' = faucetNFT + 1
    /\ Transact(Event("deploy_faucet", "tx", developer),
                Applied([world EXCEPT !.f = NewFaucet]),
                "wait_faucet")
    /\ UNCHANGED <<escrowNFT, account, escrow, txId, balance, stdout, envVars>>

\* faucet.tx.wait(3)
main_wait_faucet == At("main", "wait_faucet") /\ Wait("deploy_faucet", Confs, "txFaucet")

\* txFaucet = faucet.faucet({"from": seller})
main_txFaucet ==
    /\ At("main", "txFaucet")
    /\ Transact(Event("faucet", "tx", seller), faucet_faucet(world, seller), "wait_txFaucet")
    /\ UNCHANGED <<escrowNFT, faucetNFT, localVars, stdout, envVars>>

\* txFaucet.wait(3)
main_wait_txFaucet == At("main", "wait_txFaucet") /\ Wait("faucet", Confs, "txApprove")

\* Mutant of main_txApprove: unit 1 approved instead of unit 0.
main_txApprove_wrongUnit ==
    /\ At("main", "txApprove")
    /\ Transact([Event("approve", "tx", seller) EXCEPT
                    !.to = EscrowAddr(escrow), !.unit = ApproveUnit + 1,
                    !.token = FaucetAddr(faucet)],
                faucet_approve(world, seller, EscrowAddr(escrow), ApproveUnit + 1),
                "wait_txApprove")
    /\ UNCHANGED <<escrowNFT, faucetNFT, localVars, stdout, envVars>>

\* txApprove = faucet.approve(escrow.address, 0, {"from": seller})
main_txApprove ==
    /\ At("main", "txApprove")
    /\ Transact([Event("approve", "tx", seller) EXCEPT
                    !.to = EscrowAddr(escrow), !.unit = ApproveUnit,
                    !.token = FaucetAddr(faucet)],
                faucet_approve(world, seller, EscrowAddr(escrow), ApproveUnit),
                "wait_txApprove")
    /\ UNCHANGED <<escrowNFT, faucetNFT, localVars, stdout, envVars>>

\* Mutant of main_wait_txApprove: wait(1).
main_wait_txApprove_one == At("main", "wait_txApprove") /\ Wait("approve", 1, "txId")

\* txApprove.wait(3)
main_wait_txApprove == At("main", "wait_txApprove") /\ Wait("approve", Confs, "txId")

\* txId = escrow.generateTxId(seller.address, buyer.address, faucet.address,
\*                            web3.keccak(text="test"))
main_txId ==
    /\ At("main", "txId")
    /\ txId' = escrow_generateTxId(seller, buyer, FaucetAddr(faucet), keccak("test"))
    /\ log' = Append(log, [Event("generateTxId", "call", None) EXCEPT
                              !.seller = seller, !.buyer = buyer,
                              !.token = FaucetAddr(faucet), !.salt = keccak("test"),
                              !.id = txId'])
    /\ Goto("txCreate")
    /\ UNCHANGED <<chainVars, account, escrow, faucet, balance, stdout, envVars>>

\* Mutant of main_txCreate: the developer named as buyer.
main_txCreate_otherBuyer ==
    /\ At("main", "txCreate")
    /\ Transact([Event("createEscrow", "tx", seller) EXCEPT
                    !.id = txId, !.unit = CreateUnit, !.price = toWei(CreateEther),
                    !.token = FaucetAddr(faucet), !.buyer = developer],
                escrow_createEscrow(world, EscrowAddr(escrow), FaucetAddr(faucetNFT),
                                    seller, txId, CreateUnit, toWei(CreateEther),
                                    FaucetAddr(faucet), developer),
                "wait_txCreate")
    /\ UNCHANGED <<escrowNFT, faucetNFT, localVars, stdout, envVars>>

\* txCreate = escrow.createEscrow(txId, 0, web3.toWei("0.5", "ether"),
\*                                faucet.address, buyer.address, {"from": seller})
main_txCreate ==
    /\ At("main", "txCreate")
    /\ Transact([Event("createEscrow", "tx", seller) EXCEPT
                    !.id = txId, !.unit = CreateUnit, !.price = toWei(CreateEther),
                    !.token = FaucetAddr(faucet), !.buyer = buyer],
                escrow_createEscrow(world, EscrowAddr(escrow), FaucetAddr(faucetNFT),
                                    seller, txId, CreateUnit, toWei(CreateEther),
                                    FaucetAddr(faucet), buyer),
                "wait_txCreate")
    /\ UNCHANGED <<escrowNFT, faucetNFT, localVars, stdout, envVars>>

\* txCreate.wait(3)
main_wait_txCreate == At("main", "wait_txCreate") /\ Wait("createEscrow", Confs, "txPay")

\* txPay = escrow.payEscrow(txId, {"from": buyer, "value": web3.toWei("0.5", "ether")})
main_txPay ==
    /\ At("main", "txPay")
    /\ Transact([Event("payEscrow", "tx", buyer) EXCEPT
                    !.id = txId, !.value = toWei(PayEther)],
                escrow_payEscrow(world, EscrowAddr(escrow), buyer, txId, toWei(PayEther)),
                "wait_txPay")
    /\ UNCHANGED <<escrowNFT, faucetNFT, localVars, stdout, envVars>>

\* txPay.wait(3): the last statement of main()
main_wait_txPay == At("main", "wait_txPay") /\ Wait("payEscrow", Confs, "end")

\* ------------------------------------------------------ scripts/simulation.py
\* escrowNFT[-1] and faucetNFT[-1] are looked up anew in every statement; the
\* lookup raises IndexError when nothing is deployed.

\* account = accounts.from_mnemonic(config["wallets"]["from_mnemonic"], count=2)
sim_account ==
    /\ At("simulation", "account")
    /\ account' = from_mnemonic(SimCount)
    /\ log' = Append(log, Event("getAccount", "local", None))
    /\ Goto("txFaucet")
    /\ UNCHANGED <<chainVars, escrow, faucet, txId, balance, stdout, envVars>>

\* txFaucet = faucetNFT[-1].faucet({"from": account[0]})
sim_txFaucet ==
    /\ At("simulation", "txFaucet")
    /\ IF faucetNFT = 0
       THEN Raise("index") /\ UNCHANGED <<world, height, log>>
       ELSE Transact(Event("faucet", "tx", account[0]),
                     faucet_faucet(world, account[0]), "wait_txFaucet")
    /\ UNCHANGED <<escrowNFT, faucetNFT, localVars, stdout, envVars>>

\* txFaucet.wait(3)
sim_wait_txFaucet == At("simulation", "wait_txFaucet") /\ Wait("faucet", Confs, "txApprove")

\* Mutant of sim_txApprove: a revert is caught and the script goes on.
sim_txApprove_swallow ==
    /\ At("simulation", "txApprove")
    /\ LET ev == [Event("approve", "tx", account[0]) EXCEPT
                     !.to = EscrowAddr(escrowNFT), !.unit = ApproveUnit,
                     !.token = FaucetAddr(faucetNFT)]
           res == faucet_approve(world, account[0], EscrowAddr(escrowNFT), ApproveUnit)
       IN IF res.ok
          THEN Transact(ev, res, "wait_txApprove")
          ELSE /\ log' = Append(log, [ev EXCEPT !.ok = FALSE])
               /\ Goto("txId")
               /\ UNCHANGED <<world, height>>
    /\ UNCHANGED <<escrowNFT, faucetNFT, localVars, stdout, envVars>>

\* txApprove = faucetNFT[-1].approve(escrowNFT[-1].address, 0, {"from": account[0]})
sim_txApprove ==
    /\ At("simulation", "txApprove")
    /\ IF escrowNFT = 0
       THEN Raise("index") /\ UNCHANGED <<world, height, log>>
       ELSE Transact([Event("approve", "tx", account[0]) EXCEPT
                         !.to = EscrowAddr(escrowNFT), !.unit = ApproveUnit,
                         !.token = FaucetAddr(faucetNFT)],
                     faucet_approve(world, account[0], EscrowAddr(escrowNFT), ApproveUnit),
                     "wait_txApprove")
    /\ UNCHANGED <<escrowNFT, faucetNFT, localVars, stdout, envVars>>

\* txApprove.wait(3)
sim_wait_txApprove == At("simulation", "wait_txApprove") /\ Wait("approve", Confs, "txId")

\* txId = escrowNFT[-1].generateTxId(account[0], account[1], faucetNFT[-1].address,
\*                                   web3.keccak(text="test"), {"from": account[0]})
sim_txId ==
    /\ At("simulation", "txId")
    /\ txId' = escrow_generateTxId(account[0], account[1], FaucetAddr(faucetNFT),
                                   keccak("test"))
    /\ log' = Append(log, [Event("generateTxId", "call", account[0]) EXCEPT
                              !.seller = account[0], !.buyer = account[1],
                              !.token = FaucetAddr(faucetNFT), !.salt = keccak("test"),
                              !.id = txId'])
    /\ Goto("txCreate")
    /\ UNCHANGED <<chainVars, account, escrow, faucet, balance, stdout, envVars>>

\* txCreate = escrowNFT[-1].createEscrow(txId, 0, web3.toWei("0.5", "ether"),
\*                                       faucetNFT[-1].address, account[1],
\*                                       {"from": account[0]})
sim_txCreate ==
    /\ At("simulation", "txCreate")
    /\ Transact([Event("createEscrow", "tx", account[0]) EXCEPT
                    !.id = txId, !.unit = CreateUnit, !.price = toWei(CreateEther),
                    !.token = FaucetAddr(faucetNFT), !.buyer = account[1]],
                escrow_createEscrow(world, EscrowAddr(escrowNFT), FaucetAddr(faucetNFT),
                                    account[0], txId, CreateUnit, toWei(CreateEther),
                                    FaucetAddr(faucetNFT), account[1]),
                "wait_txCreate")
    /\ UNCHANGED <<escrowNFT, faucetNFT, localVars, stdout, envVars>>

\* txCreate.wait(3)
sim_wait_txCreate == At("simulation", "wait_txCreate") /\ Wait("createEscrow", Confs, "txPay")

\* txPay = escrowNFT[-1].payEscrow(txId, {"from": account[1],
\*                                        "value": web3.toWei("0.5", "ether")})
sim_txPay ==
    /\ At("simulation", "txPay")
    /\ Transact([Event("payEscrow", "tx", account[1]) EXCEPT
                    !.id = txId, !.value = toWei(PayEther)],
                escrow_payEscrow(world, EscrowAddr(escrowNFT), account[1], txId,
                                 toWei(PayEther)),
                "wait_txPay")
    /\ UNCHANGED <<escrowNFT, faucetNFT, localVars, stdout, envVars>>

\* txPay.wait(3)
sim_wait_txPay == At("simulation", "wait_txPay") /\ Wait("payEscrow", Confs, "balance")

\* Mutant of sim_balance: the seller's balance is read.
sim_balance_ofSeller ==
    /\ At("simulation", "balance")
    /\ balance' = balanceOf(world, account[0])
    /\ log' = Append(log, [Event("balanceOf", "call", None) EXCEPT
                              !.to = account[0], !.token = FaucetAddr(faucetNFT),
                              !.at = height])
    /\ Goto("print")
    /\ UNCHANGED <<chainVars, account, escrow, faucet, txId, stdout, envVars>>

\* balance = faucetNFT[-1].balanceOf(account[1])
sim_balance ==
    /\ At("simulation", "balance")
    /\ balance' = balanceOf(world, account[1])
    /\ log' = Append(log, [Event("balanceOf", "call", None) EXCEPT
                              !.to = account[1], !.token = FaucetAddr(faucetNFT),
                              !.at = height])
    /\ Goto("print")
    /\ UNCHANGED <<chainVars, account, escrow, faucet, txId, stdout, envVars>>

\* print(balance): the last statement of main()
sim_print ==
    /\ At("simulation", "print")
    /\ stdout' = Append(stdout, [what |-> "balance", value |-> balance, at |-> height])
    /\ Goto("end")
    /\ UNCHANGED <<chainVars, localVars, log, envVars>>

\* ------------------------------------------------------------- environment
\* A script is started (brownie run scripts/<name>.py) when none is running.
StartRun(s) ==
    /\ status # "running"
    /\ runs < MaxRuns
    /\ nCalls = 0
    /\ script' = s
    /\ pc' = IF s = "main" THEN "getAccount" ELSE "account"
    /\ status' = "running"
    /\ failure' = "none"
    /\ runs' = runs + 1
    /\ fresh' = \/ s = "main"
                \/ faucetNFT > 0 /\ world.f.nextId = 0 /\ world.e.records = {}
    /\ account' = <<>>
    /\ escrow' = 0
    /\ faucet' = 0
    /\ txId' = NoTx
    /\ balance' = -1
    /\ stdout' = <<>>
    /\ log' = <<>>
    /\ UNCHANGED <<chainVars, envVars>>

WaitPcs == {"wait_escrow", "wait_faucet", "wait_txFaucet", "wait_txApprove",
            "wait_txCreate", "wait_txPay"}

\* The chain adds a block while the script waits.
Mine ==
    /\ status = "running"
    /\ pc \in WaitPcs
    /\ Confirmations(log[Len(log)].block) < Confs + MaxExtraBlocks
    /\ height' = height + 1
    /\ UNCHANGED <<escrowNFT, faucetNFT, world, procVars, localVars, outVars, envVars>>

\* A failure outside the contracts (bad seed phrase, signing, network, timeout)
\* at the statement the script is at: the exception is not caught.
Fault ==
    /\ status = "running"
    /\ Raise("fault")
    /\ UNCHANGED <<chainVars, localVars, outVars, envVars>>

ScriptStep ==
    \/ main_getAccount
    \/ main_deploy_escrow
    \/ main_wait_escrow
    \/ main_deploy_faucet
    \/ main_wait_faucet
    \/ main_txFaucet
    \/ main_wait_txFaucet
    \/ main_txApprove
    \/ main_wait_txApprove
    \/ main_txId
    \/ main_txCreate
    \/ main_wait_txCreate
    \/ main_txPay
    \/ main_wait_txPay
    \/ sim_account
    \/ sim_txFaucet
    \/ sim_wait_txFaucet
    \/ sim_txApprove
    \/ sim_wait_txApprove
    \/ sim_txId
    \/ sim_txCreate
    \/ sim_wait_txCreate
    \/ sim_txPay
    \/ sim_wait_txPay
    \/ sim_balance
    \/ sim_print

Next ==
    \/ ScriptStep
    \/ Mine
    \/ Fault
    \/ \E s \in {"main", "simulation"} : StartRun(s)

Spec == Init /\ [][Next]_vars

\* The script runs on and the chain keeps producing blocks; a fault may or may not
\* happen.
LiveSpec == Spec /\ WF_vars(ScriptStep) /\ WF_vars(Mine)

\* ------------------------------------------- the contracts called by anyone
\* The contracts as main.py's deployContract leaves them, then called by
\* arbitrary accounts with arbitrary arguments, in any order.
TheEscrow == EscrowAddr(1)

TheFaucet == FaucetAddr(1)

\* Identifiers computed from the script's inputs and from inputs that differ.
CallIds ==
    {escrow_generateTxId(Acct(1), Acct(2), TheFaucet, keccak("test")),
     escrow_generateTxId(Acct(2), Acct(1), TheFaucet, keccak("test"))}

CallUnits == {0, 1}

CallValues == {toWei(PayEther), toWei(PayEther) - 1}

ContractInit ==
    /\ height = 2 * Confs
    /\ escrowNFT = 1
    /\ faucetNFT = 1
    /\ world = [InitWorld EXCEPT !.e = NewEscrow(EscrowConfig)]
    /\ script = "none"
    /\ pc = "end"
    /\ status = "idle"
    /\ failure = "none"
    /\ runs = 0
    /\ fresh = FALSE
    /\ account = <<>>
    /\ escrow = 0
    /\ faucet = 0
    /\ txId = NoTx
    /\ balance = -1
    /\ stdout = <<>>
    /\ log = <<>>
    /\ nCalls = 0
    /\ lastCall = NoCall

\* A transaction sent by any account: applied and mined, or reverted.
Called(fn, from, id, value, res) ==
    /\ nCalls < MaxCalls
    /\ nCalls' = nCalls + 1
    /\ lastCall' = [fn |-> fn, from |-> from, id |-> id, value |-> value, ok |-> res.ok]
    /\ world' = res.w
    /\ height' = IF res.ok THEN height + 1 ELSE height
    /\ UNCHANGED <<escrowNFT, faucetNFT, procVars, localVars, outVars>>

call_faucet(a) == Called("faucet", a, NoTx, -1, faucet_faucet(world, a))

call_approve(a, u) ==
    Called("approve", a, NoTx, -1, faucet_approve(world, a, TheEscrow, u))

call_createEscrow(a, id, u, b) ==
    Called("createEscrow", a, id, -1,
           escrow_createEscrow(world, TheEscrow, TheFaucet, a, id, u,
                               toWei(CreateEther), TheFaucet, b))

call_payEscrow(a, id, v) ==
    Called("payEscrow", a, id, v, escrow_payEscrow(world, TheEscrow, a, id, v))

ContractNext ==
    \/ \E a \in AllAccounts : call_faucet(a)
    \/ \E a \in AllAccounts, u \in CallUnits : call_approve(a, u)
    \/ \E a \in AllAccounts, id \in CallIds, u \in CallUnits, b \in AllAccounts :
          call_createEscrow(a, id, u, b)
    \/ \E a \in AllAccounts, id \in CallIds, v \in CallValues : call_payEscrow(a, id, v)

ContractSpec == ContractInit /\ [][ContractNext]_vars

\* ====================================================================== claims
IsTx(e) == e.kind = "tx"

IsWait(e) == e.kind = "wait"

\* The run's calls, without its waits.
Calls == SelectSeq(log, LAMBDA e : ~IsWait(e))

Issued(op) == {i \in 1..Len(log) : log[i].op = op}

\* The accounts the run uses as seller and buyer.
RunSeller == IF script = "main" THEN Acct(1) ELSE Acct(0)

RunBuyer == IF script = "main" THEN Acct(2) ELSE Acct(1)

\* ---------------------------------------------------------------------- C1
\* C1: every transaction a script sends (escrow deploy, faucet deploy, faucet
\* claim, approve, createEscrow, payEscrow) is followed, before anything else the
\* script does, by a wait for exactly 3 confirmations of that transaction, which
\* returns only when the chain has given it 3; a later transaction is mined at
\* least 3 blocks after it; and a finished run leaves no transaction unwaited.
C1_WaitThreeAfterEveryTx ==
    \A i \in 1..Len(log) :
        (IsTx(log[i]) /\ log[i].ok) =>
            /\ i < Len(log) =>
                  /\ IsWait(log[i + 1])
                  /\ log[i + 1].of = log[i].op
                  /\ log[i + 1].n = 3
                  /\ log[i + 1].at - log[i].block + 1 >= 3
            /\ i = Len(log) => status # "done" /\ pc \in WaitPcs
            /\ \A j \in (i + 1)..Len(log) :
                  IsTx(log[j]) /\ log[j].ok => log[j].block >= log[i].block + 3

\* A completed run of main.py: six transactions, six waits.
C1_Witness ==
    /\ script = "main"
    /\ status = "done"
    /\ Cardinality({i \in 1..Len(log) : IsWait(log[i])}) = 6
    /\ Cardinality({i \in 1..Len(log) : IsTx(log[i])}) = 6

\* ---------------------------------------------------------------------- C2
\* C2: the id given to createEscrow and the id given to payEscrow are the value
\* of the run's single generateTxId call, and that call was made with the signer
\* of createEscrow as seller, with createEscrow's buyer argument (who also signs
\* payEscrow) as buyer, and with createEscrow's token argument as token.
C2_SameIdForCreateAndPay ==
    /\ Cardinality(Issued("generateTxId")) <= 1
    /\ \A c \in Issued("createEscrow") \cup Issued("payEscrow") :
          \E g \in Issued("generateTxId") :
             /\ g < c
             /\ log[g].id = <<log[g].seller, log[g].buyer, log[g].token, log[g].salt>>
             /\ log[c].id = log[g].id
             /\ log[c].op = "createEscrow" =>
                   /\ log[c].from = log[g].seller
                   /\ log[c].buyer = log[g].buyer
                   /\ log[c].token = log[g].token
             /\ log[c].op = "payEscrow" =>
                   /\ log[c].from = log[g].buyer
                   /\ \E k \in Issued("createEscrow") :
                         k < c /\ log[k].ok /\ log[k].id = log[c].id

\* A completed run of simulation.py: create and pay both went through.
C2_Witness ==
    /\ script = "simulation"
    /\ status = "done"
    /\ \E c \in Issued("createEscrow"), q \in Issued("payEscrow") :
          log[c].ok /\ log[q].ok /\ log[c].id = txId /\ log[q].id = txId

\* ---------------------------------------------------------------------- C3
Rank(st) == CASE st = "absent" -> 0 [] st = "pending" -> 1 [] st = "paid" -> 2

\* The status the record of the script's txId has at each statement.
ExpectedStatus ==
    CASE pc \in {"txCreate"} -> {"absent"}
      [] pc \in {"wait_txCreate", "txPay"} -> {"pending"}
      [] pc \in {"wait_txPay", "balance", "print", "end"} -> {"paid"}
      [] OTHER -> {"absent", "pending", "paid"}

C3_Start ==
    /\ status = "running"
    /\ pc \in {"getAccount", "account"}
    /\ fresh
    /\ world.wei[RunBuyer] >= 5

C3_StatusByStatement ==
    (fresh /\ script # "none" /\ txId # NoTx) => StatusOf(world, txId) \in ExpectedStatus

C3_NeverBackwards ==
    escrowNFT' = escrowNFT =>
        \A r \in world.e.records : Rank(StatusOf(world', r.id)) >= Rank(r.status)

C3_Completed ==
    (status = "done" /\ fresh) =>
        /\ StatusOf(world, txId) = "paid"
        /\ balanceOf(world, RunBuyer) = 1
        /\ ownerOf(world, 0) = RunBuyer
        /\ ownerOf(world, 0) # RunSeller

\* C3: a run that starts on escrow and faucet contracts nobody has used yet (main.py
\* deploys them itself), with a buyer who can pay the price, completes if the
\* script keeps running and the chain keeps producing blocks, unless a fault
\* outside the contracts stops it; the record of its txId is absent before
\* createEscrow, pending from createEscrow to payEscrow and paid after it, no
\* record ever goes backwards, and at completion the buyer holds exactly one
\* token unit (one more than the none he held on the unused faucet), unit 0, which
\* the seller no longer holds.
C3_EndToEnd ==
    /\ C3_Start ~> (status = "done" \/ failure = "fault")
    /\ []C3_StatusByStatement
    /\ [][C3_NeverBackwards]_vars
    /\ []C3_Completed

\* A completed run of simulation.py on contracts a failed main.py left unused.
C3_Witness ==
    /\ script = "simulation"
    /\ status = "done"
    /\ fresh
    /\ StatusOf(world, txId) = "paid"

\* ---------------------------------------------------------------------- C4
CreatedIds == {world.e.events[i].id : i \in {j \in 1..Len(world.e.events) :
                                             world.e.events[j].fn = "createEscrow"}}

\* C4: a payEscrow for an id no createEscrow ever succeeded for reverts and changes
\* nothing: no record, no owner of a unit, no currency balance.
C4_PayUnknownIdReverts ==
    [][(nCalls' = nCalls + 1 /\ lastCall'.fn = "payEscrow"
        /\ lastCall'.id \notin CreatedIds)
       => (~lastCall'.ok /\ world' = world)]_vars

\* The buyer of an existing record has just paid, with the right value, the id
\* computed with seller and buyer swapped, and holds what he held.
C4_Witness ==
    /\ lastCall.fn = "payEscrow"
    /\ lastCall.id \notin CreatedIds
    /\ lastCall.value = 5
    /\ ~lastCall.ok
    /\ \E r \in world.e.records :
          r.buyer = lastCall.from /\ r.status = "pending" /\ r.id # lastCall.id
    /\ world.wei[lastCall.from] = InitFunds

\* ---------------------------------------------------------------------- C5
PaidEvents(id) ==
    {i \in 1..Len(world.e.events) :
        world.e.events[i].fn = "payEscrow" /\ world.e.events[i].id = id}

C5_PaidOnceByBuyerAfterCreate ==
    \A r \in world.e.records :
        /\ Cardinality(PaidEvents(r.id)) <= 1
        /\ r.status = "paid" <=> PaidEvents(r.id) # {}
        /\ \A i \in PaidEvents(r.id) :
              /\ world.e.events[i].from = r.buyer
              /\ \E c \in 1..(i - 1) :
                    /\ world.e.events[c].fn = "createEscrow"
                    /\ world.e.events[c].id = r.id
                    /\ world.e.events[c].token = world.e.events[i].token

C5_RefusedPayChangesNothing ==
    (/\ nCalls' = nCalls + 1
     /\ lastCall'.fn = "payEscrow"
     /\ \/ StatusOf(world, lastCall'.id) = "paid"
        \/ \E r \in Record(world, lastCall'.id) : r.buyer # lastCall'.from)
    => (~lastCall'.ok /\ world' = world)

\* C5: whatever createEscrow and payEscrow calls are made, a record is paid at most
\* once, by the buyer named when it was created, after the createEscrow of the same
\* id and token; a payEscrow on a paid id or by another account changes nothing.
C5_PaidOnce ==
    /\ []C5_PaidOnceByBuyerAfterCreate
    /\ [][C5_RefusedPayChangesNothing]_vars

\* A paid record whose buyer has just tried to pay it again.
C5_Witness ==
    /\ lastCall.fn = "payEscrow"
    /\ ~lastCall.ok
    /\ lastCall.value = 5
    /\ \E r \in Record(world, lastCall.id) : r.status = "paid" /\ r.buyer = lastCall.from

\* ---------------------------------------------------------------------- C6
\* A call that failed is the last thing the run did, and the run has failed.
C6_FailedCallIsLast ==
    \A i \in 1..Len(log) : ~log[i].ok => (i = Len(log) /\ status = "failed")

\* The failing step terminates the script where it is and changes nothing on the
\* chain; a failed run does nothing more (the next step starts another run).
C6_StopsWhereItFails ==
    /\ (status = "running" /\ status' = "failed") =>
          /\ pc' = pc
          /\ runs' = runs
          /\ <<world, escrowNFT, faucetNFT, height>>' = <<world, escrowNFT, faucetNFT, height>>
          /\ stdout' = stdout
          /\ SelectSeq(log', LAMBDA e : e.ok) = SelectSeq(log, LAMBDA e : e.ok)
    /\ status = "failed" =>
          /\ runs' = runs + 1
          /\ <<world, escrowNFT, faucetNFT, height>>' = <<world, escrowNFT, faucetNFT, height>>

\* C6: a step that fails (a fault outside the contracts, a revert, a missing
\* deployment) terminates the script at that step: no later call is issued, the
\* failed call is not retried, and the contracts are as the last successful call
\* left them.
C6_FailFast ==
    /\ []C6_FailedCallIsLast
    /\ [][C6_StopsWhereItFails]_vars

\* simulation.py has failed in approve, which reverted, after its faucet claim
\* went through.
C6_Witness ==
    /\ script = "simulation"
    /\ status = "failed"
    /\ failure = "revert"
    /\ pc = "txApprove"
    /\ log[Len(log)].op = "approve"
    /\ ~log[Len(log)].ok
    /\ world.f.nextId = 2

\* ---------------------------------------------------------------------- C7
OpsWithBalanceQuery ==
    <<"getAccount", "deploy_escrow", "deploy_faucet", "faucet", "approve",
      "generateTxId", "createEscrow", "payEscrow", "balanceOf">>

OpsOfMain ==
    <<"getAccount", "deploy_escrow", "deploy_faucet", "faucet", "approve",
      "generateTxId", "createEscrow", "payEscrow">>

\* C7 as claimed: a completed run of main.py has made the calls of the eight
\* operations in order, the last one a query of the buyer's token balance.
C7_MainEndsWithBalanceQuery ==
    (script = "main" /\ status = "done") =>
        [i \in 1..Len(Calls) |-> Calls[i].op] = OpsWithBalanceQuery

SignerOfMain(op) ==
    CASE op \in {"deploy_escrow", "deploy_faucet"} -> Acct(0)
      [] op \in {"faucet", "approve", "createEscrow"} -> Acct(1)
      [] op = "payEscrow" -> Acct(2)
      [] OTHER -> None

\* C7 amended: at every point of a run of main.py the calls made so far are the
\* first ones of: resolve signers, deploy escrow, deploy faucet, faucet claim,
\* approve, generateTxId, createEscrow, payEscrow, each once and in this order;
\* the deployments are signed by index 0, claim, approve (of unit 0, for the
\* deployed escrow's address) and createEscrow by index 1, payEscrow by index 2; a
\* completed run has made all of them and never queries a token balance.
C7_MainSevenOperations ==
    script = "main" =>
        /\ Len(Calls) <= Len(OpsOfMain)
        /\ \A i \in 1..Len(Calls) :
              /\ Calls[i].op = OpsOfMain[i]
              /\ Calls[i].kind = "tx" => Calls[i].from = SignerOfMain(Calls[i].op)
              /\ Calls[i].op = "approve" =>
                    Calls[i].unit = 0 /\ Calls[i].to = EscrowAddr(escrowNFT)
        /\ status = "done" => Len(Calls) = Len(OpsOfMain)
        /\ balance = -1

C7_Witness ==
    /\ script = "main"
    /\ status = "done"
    /\ Len(Calls) = 8
    /\ Calls[8].op = "payEscrow"
    /\ Calls[8].ok

\* ---------------------------------------------------------------------- C8
Printed(what) == {i \in 1..Len(stdout) : stdout[i].what = what}

\* C8 as claimed: a completed run has printed the addresses of both contracts and
\* the buyer's final token balance.
C8_PrintsAddressesAndBalance ==
    status = "done" =>
        /\ Printed("escrow address") # {}
        /\ Printed("faucet address") # {}
        /\ Printed("balance") # {}

\* C8 amended: the statements of main.py print nothing, and neither script prints a
\* contract address; simulation.py prints one thing, when it completes: the token
\* balance of the buyer (index 1) as it is after the pay step, and it prints it
\* only once payEscrow has 3 confirmations.
C8_OnlySimulationPrintsBalance ==
    /\ script = "main" => stdout = <<>>
    /\ Printed("escrow address") \cup Printed("faucet address") = {}
    /\ script = "simulation" =>
          /\ status = "done" <=> Len(stdout) = 1
          /\ Len(stdout) <= 1
          /\ \A i \in Printed("balance") :
                /\ stdout[i].value = balanceOf(world, Acct(1))
                /\ \E q \in Issued("payEscrow") :
                      log[q].ok /\ stdout[i].at - log[q].block + 1 >= 3

C8_Witness ==
    /\ script = "simulation"
    /\ status = "done"
    /\ Len(stdout) = 1
    /\ stdout[1].what = "balance"
    /\ stdout[1].value >= 1

\* ---------------------------------------------------------------------- C9
\* C9: the value attached to payEscrow is the price given to createEscrow for the
\* same id, 0.5 ether, which is the price the record holds; and createEscrow names
\* the unit (0) and the token contract of the run's approve, which approved the
\* escrow contract that createEscrow is sent to.
C9_PriceAndUnitAgree ==
    /\ \A q \in Issued("payEscrow") :
          /\ log[q].value = 5
          /\ \E c \in Issued("createEscrow") :
                /\ c < q
                /\ log[c].id = log[q].id
                /\ log[c].price = log[q].value
          /\ \A r \in Record(world, log[q].id) : r.price = log[q].value
    /\ \A c \in Issued("createEscrow") :
          /\ log[c].unit = 0
          /\ log[c].price = 5
          /\ \E a \in Issued("approve") :
                /\ a < c
                /\ log[a].ok
                /\ log[a].unit = log[c].unit
                /\ log[a].token = log[c].token
                /\ log[a].from = log[c].from
                /\ log[a].to = EscrowAddr(escrowNFT)

\* main.py's payEscrow went through with the value 5 (0.5 ether).
C9_Witness ==
    /\ script = "main"
    /\ \E q \in Issued("payEscrow") : log[q].ok /\ log[q].value = 5
    /\ \E r \in world.e.records : r.status = "paid" /\ r.price = 5

\* --------------------------------------------------------------------- C10
\* C10 as claimed: when a script is about to send approve(escrow, 0) or
\* createEscrow(.., 0, ..), the account that signs it owns token unit 0, and unit
\* 0 is the unit the run's faucet claim minted (the faucet held none before).
C10_SellerOwnsUnitZero ==
    (status = "running" /\ pc \in {"txApprove", "txCreate"}) =>
        /\ ownerOf(world, 0) = RunSeller
        /\ world.f.nextId = 1

====
